---- MODULE Spec2Model ----
(***************************************************************************)
(* Model of src/operations.py: the FactorySimulation class (a serial       *)
(* production line stepped one tick at a time under push or               *)
(* Drum-Buffer-Rope release) and the run_simulation loop that drives it.   *)
(* Stations are identified by their position in the insertion-ordered     *)
(* stations dict (0-based, as station_names[i] in the code).               *)
(***************************************************************************)
EXTENDS Integers, Sequences, FiniteSets, TLC

\* ---- bounds of the model ----
MaxStations == 3
MaxDur == 3
MaxBuf == 2
MaxTicks == 14
MaxRuns == 2

\* The sidebar's default slider values (Cutting, Welding, Painting, Assembly).
DefaultStations == [i \in 0..3 |-> CASE i = 0 -> 5 [] i = 1 -> 10 [] i = 2 -> 7 [] OTHER -> 6]

VARIABLES
    stations,        \* station index -> processing time (stations[name]['time'])
    use_dbr,         \* release mode: TRUE = Drum-Buffer-Rope, FALSE = push
    buffer_size,     \* DBR buffer threshold
    bottleneck_idx,  \* index of the drum
    time,            \* self.time
    units_produced,  \* self.units_produced
    wip,             \* self.wip: station index -> queued units
    station_status,  \* self.station_status: index -> [state, time_left]
    history,         \* self.history: sequence of per-tick records
    log,             \* self.log: sequence of event entries
    released,        \* number of units injected into the first station so far
    pc,              \* "new", "ready", "observe", "done", "raised"
    t,               \* loop index of the run_simulation loop
    ui,              \* what the live display last rendered
    err,             \* exception raised by the constructor, "" if none
    runs             \* number of runs started on the instance (construction, resets)

vars == <<stations, use_dbr, buffer_size, bottleneck_idx, time, units_produced,
          wip, station_status, history, log, released, pc, t, ui, err, runs>>

config == <<stations, use_dbr, buffer_size>>

NStations == Cardinality(DOMAIN stations)

available_time == MaxTicks

\* ---- configurations ----
Chains(lo, hi) ==
    UNION { [0..(n-1) -> lo..hi] : n \in 1..MaxStations }

\* What the sidebar can produce: every slider has minimum 1.
SidebarStations == Chains(1, MaxDur) \cup {DefaultStations}

\* What a direct caller of the constructor can pass.
AnyStations == Chains(0, MaxDur) \cup {<<>>}

\* ---- FactorySimulation.__init__: bottleneck selection ----
\* variant: a scan that lets a later equal key replace the current best
RECURSIVE MaxScanLast(_, _, _)
MaxScanLast(st, i, best) ==
    IF i >= Cardinality(DOMAIN st) THEN best
    ELSE MaxScanLast(st, i + 1, IF st[i] >= st[best] THEN i ELSE best)

\* Python's max(iterable, key=...) scans in order and replaces the current
\* best only by a strictly greater key.
RECURSIVE MaxScan(_, _, _)
MaxScan(st, i, best) ==
    IF i >= Cardinality(DOMAIN st) THEN best
    ELSE MaxScan(st, i + 1, IF st[i] > st[best] THEN i ELSE best)

BottleneckOf(st) == MaxScan(st, 1, 0)

\* ---- the simulation state as one record, for the pure step function ----
SimState ==
    [time |-> time, units_produced |-> units_produced, wip |-> wip,
     station_status |-> station_status, history |-> history, log |-> log,
     released |-> released]

\* FactorySimulation.reset
ResetState ==
    [time |-> 0, units_produced |-> 0,
     wip |-> [i \in DOMAIN stations |-> 0],
     station_status |-> [i \in DOMAIN stations |-> [state |-> "idle", time_left |-> 0]],
     history |-> <<>>, log |-> <<>>, released |-> 0]

\* Statements run one after another, each on the state value the preceding
\* ones have produced: {F(x) : x \in {e}} applies F to the value of e, and
\* The picks the single result.
The(S) == CHOOSE r \in S : TRUE

\* ---- FactorySimulation.step, phase 1: completion, last station to first ----
\* variant: the finished counter is decremented instead of incremented
CompleteStationDecrementing(s, i) ==
    IF s.station_status[i].state = "processing"
    THEN LET tl == s.station_status[i].time_left - 1
             s1 == [s EXCEPT !.station_status[i].time_left = tl]
         IN IF tl <= 0
            THEN LET s2 == [s1 EXCEPT !.station_status[i].state = "idle"]
                 IN IF i = NStations - 1
                    THEN [s2 EXCEPT !.units_produced = @ - 1,
                                    !.log = Append(@, <<s.time, "finished", i, s.units_produced - 1>>)]
                    ELSE [s2 EXCEPT !.wip[i + 1] = @ + 1,
                                    !.log = Append(@, <<s.time, "moved", i, i + 1>>)]
            ELSE s1
    ELSE s

\* variant: a unit completes only when time_left falls below 0
CompleteStationStrict(s, i) ==
    IF s.station_status[i].state = "processing"
    THEN LET tl == s.station_status[i].time_left - 1
             s1 == [s EXCEPT !.station_status[i].time_left = tl]
         IN IF tl < 0
            THEN LET s2 == [s1 EXCEPT !.station_status[i].state = "idle"]
                 IN IF i = NStations - 1
                    THEN [s2 EXCEPT !.units_produced = @ + 1,
                                    !.log = Append(@, <<s.time, "finished", i, s.units_produced + 1>>)]
                    ELSE [s2 EXCEPT !.wip[i + 1] = @ + 1,
                                    !.log = Append(@, <<s.time, "moved", i, i + 1>>)]
            ELSE s1
    ELSE s

CompleteStation(s, i) ==
    IF s.station_status[i].state = "processing"
    THEN LET tl == s.station_status[i].time_left - 1
             s1 == [s EXCEPT !.station_status[i].time_left = tl]
         IN IF tl <= 0
            THEN LET s2 == [s1 EXCEPT !.station_status[i].state = "idle"]
                 IN IF i = NStations - 1
                    THEN [s2 EXCEPT !.units_produced = @ + 1,
                                    !.log = Append(@, <<s.time, "finished", i, s.units_produced + 1>>)]
                    ELSE [s2 EXCEPT !.wip[i + 1] = @ + 1,
                                    !.log = Append(@, <<s.time, "moved", i, i + 1>>)]
            ELSE s1
    ELSE s

RECURSIVE CompletionPhase(_, _)
CompletionPhase(s, i) ==
    IF i < 0 THEN s
    ELSE The({CompletionPhase(x, i - 1) : x \in {CompleteStation(s, i)}})

\* ---- phase 2: dispatch, first station to last ----
\* variant: a started unit is not taken out of the queue
DispatchStationNoDequeue(s, i) ==
    IF s.station_status[i].state = "idle" /\ s.wip[i] > 0
    THEN [s EXCEPT !.station_status[i] = [state |-> "processing", time_left |-> stations[i]],
                   !.log = Append(@, <<s.time, "started", i>>)]
    ELSE s

\* variant: an idle station starts a unit without checking its queue
DispatchStationUnguarded(s, i) ==
    IF s.station_status[i].state = "idle"
    THEN [s EXCEPT !.wip[i] = @ - 1,
                   !.station_status[i] = [state |-> "processing", time_left |-> stations[i]],
                   !.log = Append(@, <<s.time, "started", i>>)]
    ELSE s

\* variant: a queued unit is started even while the station is processing
DispatchStationPreempting(s, i) ==
    IF s.wip[i] > 0
    THEN [s EXCEPT !.wip[i] = @ - 1,
                   !.station_status[i] = [state |-> "processing", time_left |-> stations[i]],
                   !.log = Append(@, <<s.time, "started", i>>)]
    ELSE s

\* variant: a station starts a unit only when more than one is queued
DispatchStationOffByOne(s, i) ==
    IF s.station_status[i].state = "idle" /\ s.wip[i] > 1
    THEN [s EXCEPT !.wip[i] = @ - 1,
                   !.station_status[i] = [state |-> "processing", time_left |-> stations[i]],
                   !.log = Append(@, <<s.time, "started", i>>)]
    ELSE s

DispatchStation(s, i) ==
    IF s.station_status[i].state = "idle" /\ s.wip[i] > 0
    THEN [s EXCEPT !.wip[i] = @ - 1,
                   !.station_status[i] = [state |-> "processing", time_left |-> stations[i]],
                   !.log = Append(@, <<s.time, "started", i>>)]
    ELSE s

RECURSIVE DispatchPhase(_, _)
DispatchPhase(s, i) ==
    IF i >= NStations THEN s
    ELSE The({DispatchPhase(x, i + 1) : x \in {DispatchStation(s, i)}})

\* ---- phase 3: material release (the rope) ----
RECURSIVE SumTo(_, _)
SumTo(w, i) == IF i < 0 THEN 0 ELSE w[i] + SumTo(w, i - 1)

\* sum(self.wip[name] for name in station_names[:bottleneck_idx+1])
BufferWip(w) == SumTo(w, bottleneck_idx)

\* variant: the push release waits for an idle first station
ReleasePushWhenReady(s) ==
    IF s.station_status[0].state = "idle"
    THEN [s EXCEPT !.wip[0] = @ + 1, !.released = @ + 1,
                   !.log = Append(@, <<s.time, "push", 0>>)]
    ELSE s

\* the push branch: one unit enters the first station
ReleasePush(s) ==
    [s EXCEPT !.wip[0] = @ + 1, !.released = @ + 1,
              !.log = Append(@, <<s.time, "push", 0>>)]

\* the dbr branch: one unit enters only while the buffer is not full
ReleaseRope(s) ==
    IF BufferWip(s.wip) < buffer_size
    THEN [s EXCEPT !.wip[0] = @ + 1, !.released = @ + 1,
                   !.log = Append(@, <<s.time, "rope", 0>>)]
    ELSE s

\* variant: push releases only while the first station is idle
ReleasePhaseWhenReady(s) ==
    IF use_dbr
    THEN IF BufferWip(s.wip) < buffer_size
         THEN [s EXCEPT !.wip[0] = @ + 1, !.released = @ + 1,
                        !.log = Append(@, <<s.time, "rope", 0>>)]
         ELSE s
    ELSE IF s.station_status[0].state = "idle"
         THEN [s EXCEPT !.wip[0] = @ + 1, !.released = @ + 1,
                        !.log = Append(@, <<s.time, "push", 0>>)]
         ELSE s

\* variant: the rope also releases when the buffer is exactly full
ReleasePhaseInclusive(s) ==
    IF use_dbr
    THEN IF BufferWip(s.wip) <= buffer_size
         THEN [s EXCEPT !.wip[0] = @ + 1, !.released = @ + 1,
                        !.log = Append(@, <<s.time, "rope", 0>>)]
         ELSE s
    ELSE [s EXCEPT !.wip[0] = @ + 1, !.released = @ + 1,
                   !.log = Append(@, <<s.time, "push", 0>>)]

\* variant: the rope looks at the first station's queue only
ReleasePhaseFirstOnly(s) ==
    IF use_dbr
    THEN IF s.wip[0] < buffer_size
         THEN [s EXCEPT !.wip[0] = @ + 1, !.released = @ + 1,
                        !.log = Append(@, <<s.time, "rope", 0>>)]
         ELSE s
    ELSE [s EXCEPT !.wip[0] = @ + 1, !.released = @ + 1,
                   !.log = Append(@, <<s.time, "push", 0>>)]

ReleasePhase(s) == IF use_dbr THEN ReleaseRope(s) ELSE ReleasePush(s)

\* ---- history record ----
\* variant: every record refers to the live wip dict instead of its values
RecordHistoryAliasing(s) ==
    [s EXCEPT !.history =
        [k \in 1..(Len(@) + 1) |->
            IF k <= Len(@)
            THEN [@[k] EXCEPT !.WIP = s.wip]
            ELSE [Time |-> s.time, UnitsProduced |-> s.units_produced, WIP |-> s.wip]]]

RecordHistory(s) ==
    [s EXCEPT !.history = Append(@, [Time |-> s.time,
                                     UnitsProduced |-> s.units_produced,
                                     WIP |-> s.wip])]

\* variant: material is released before the dispatch phase
StepOfReleaseFirst(s) ==
    The({RecordHistory(s3) :
            s3 \in {DispatchPhase(s2, 0) :
                s2 \in {ReleasePhase(s1) :
                    s1 \in {CompletionPhase(s0, NStations - 1) :
                        s0 \in {[s EXCEPT !.time = @ + 1]}}}}})

\* variant: the dispatch loop runs before the completion loop
StepOfDispatchFirst(s) ==
    The({RecordHistory(s3) :
            s3 \in {ReleasePhase(s2) :
                s2 \in {CompletionPhase(s1, NStations - 1) :
                    s1 \in {DispatchPhase(s0, 0) :
                        s0 \in {[s EXCEPT !.time = @ + 1]}}}}})

\* ---- FactorySimulation.step as a function of the state ----
StepOf(s) ==
    The({RecordHistory(s3) :
            s3 \in {ReleasePhase(s2) :
                s2 \in {DispatchPhase(s1, 0) :
                    s1 \in {CompletionPhase(s0, NStations - 1) :
                        s0 \in {[s EXCEPT !.time = @ + 1]}}}}})

\* one tick of a push-mode simulation of the same station chain
PushStepOf(s) ==
    The({RecordHistory(s3) :
            s3 \in {ReleasePush(s2) :
                s2 \in {DispatchPhase(s1, 0) :
                    s1 \in {CompletionPhase(s0, NStations - 1) :
                        s0 \in {[s EXCEPT !.time = @ + 1]}}}}})

SetSim(s) ==
    /\ time' = s.time
    /\ units_produced' = s.units_produced
    /\ wip' = s.wip
    /\ station_status' = s.station_status
    /\ history' = s.history
    /\ log' = s.log
    /\ released' = s.released

simVars == <<time, units_produced, wip, station_status, history, log, released>>

\* ---- initial states ----
InitWith(chains, bufs) ==
    /\ stations \in chains
    /\ use_dbr \in BOOLEAN
    /\ buffer_size \in bufs
    /\ (~use_dbr => buffer_size = 1)
    /\ bottleneck_idx = -1
    /\ time = 0 /\ units_produced = 0 /\ wip = <<>> /\ station_status = <<>>
    /\ history = <<>> /\ log = <<>> /\ released = 0
    /\ pc = "new" /\ t = 0 /\ ui = <<>> /\ err = "" /\ runs = 0

Init == InitWith(SidebarStations, 1..MaxBuf)

InitCtor == InitWith(AnyStations, 0..MaxBuf)

\* ---- actions ----
\* sim = FactorySimulation(stations, use_dbr, buffer_size)
Construct ==
    /\ pc = "new"
    /\ IF stations = <<>>
       THEN \* max() of an empty dict raises ValueError
            /\ pc' = "raised" /\ err' = "ValueError"
            /\ UNCHANGED <<bottleneck_idx, simVars, runs>>
       ELSE /\ bottleneck_idx' = BottleneckOf(stations)
            /\ SetSim(ResetState)
            /\ pc' = "ready" /\ err' = "" /\ runs' = 1
    /\ UNCHANGED <<config, t, ui>>

\* sim.step()
Step ==
    /\ pc = "ready"
    /\ time < MaxTicks
    /\ SetSim(StepOf(SimState))
    /\ UNCHANGED <<config, bottleneck_idx, pc, t, ui, err, runs>>

\* variant: reset() leaves the stations' status as it was
ResetKeepingStatus ==
    /\ pc = "ready"
    /\ runs < MaxRuns
    /\ time' = 0 /\ units_produced' = 0
    /\ wip' = [i \in DOMAIN stations |-> 0]
    /\ history' = <<>> /\ log' = <<>> /\ released' = 0
    /\ runs' = runs + 1
    /\ UNCHANGED <<config, bottleneck_idx, station_status, pc, t, ui, err>>

\* sim.reset()
Reset ==
    /\ pc = "ready"
    /\ runs < MaxRuns
    /\ SetSim(ResetState)
    /\ runs' = runs + 1
    /\ UNCHANGED <<config, bottleneck_idx, pc, t, ui, err>>

Next == Construct \/ Step \/ Reset

Spec == Init /\ [][Next]_vars

SpecCtor == InitCtor /\ [][Next]_vars

\* A run that keeps stepping: the caller's loop calls step() again as long
\* as ticks remain, so an enabled Step is eventually taken.
NextLive == Construct \/ Step

SpecLive == Init /\ [][NextLive]_vars /\ WF_vars(Step)

\* ---- the run_simulation loop: for t in range(available_time) ----
RECURSIVE Reverse(_)
Reverse(q) == IF q = <<>> THEN <<>> ELSE Append(Reverse(Tail(q)), Head(q))

\* sim.step() inside the loop; every 5th iteration the display is refreshed
LoopStep ==
    /\ pc = "ready"
    /\ t < available_time
    /\ SetSim(StepOf(SimState))
    /\ IF t % 5 = 0
       THEN pc' = "observe" /\ t' = t
       ELSE pc' = "ready" /\ t' = t + 1
    /\ UNCHANGED <<config, bottleneck_idx, ui, err, runs>>

\* variant: the refresh drains the history it has just charted
ObserveDraining ==
    /\ pc = "observe"
    /\ ui' = [progress |-> <<t + 1, available_time>>,
              drum |-> bottleneck_idx,
              metric |-> wip,
              bars |-> [i \in DOMAIN stations |->
                          IF station_status[i].state = "processing"
                          THEN <<stations[i] - station_status[i].time_left, stations[i]>>
                          ELSE <<0, 1>>],
              chart |-> history,
              logtext |-> Reverse(log)]
    /\ history' = <<>>
    /\ t' = t + 1
    /\ pc' = "ready"
    /\ UNCHANGED <<config, bottleneck_idx, time, units_produced, wip,
                   station_status, log, released, err, runs>>

\* the periodic refresh: reads the live state into the placeholders
Observe ==
    /\ pc = "observe"
    /\ ui' = [progress |-> <<t + 1, available_time>>,
              drum |-> bottleneck_idx,
              metric |-> wip,
              bars |-> [i \in DOMAIN stations |->
                          IF station_status[i].state = "processing"
                          THEN <<stations[i] - station_status[i].time_left, stations[i]>>
                          ELSE <<0, 1>>],
              chart |-> history,
              logtext |-> Reverse(log)]
    /\ t' = t + 1
    /\ pc' = "ready"
    /\ UNCHANGED <<config, bottleneck_idx, simVars, err, runs>>

\* after the loop: final results
Finish ==
    /\ pc = "ready"
    /\ t = available_time
    /\ ui' = [progress |-> <<1, 1>>,
              total_wip |-> SumTo(wip, NStations - 1),
              units |-> units_produced]
    /\ pc' = "done"
    /\ UNCHANGED <<config, bottleneck_idx, simVars, t, err, runs>>

NextDriver == Construct \/ LoopStep \/ Observe \/ Finish

SpecDriver == Init /\ [][NextDriver]_vars

\* N steps with no intermediate observation
RECURSIVE BatchRun(_)
BatchRun(n) == IF n = 0 THEN ResetState ELSE The({StepOf(x) : x \in {BatchRun(n - 1)}})

\* n steps of a push-mode simulation of the same station chain
RECURSIVE PushRun(_)
PushRun(n) == IF n = 0 THEN ResetState ELSE The({PushStepOf(x) : x \in {PushRun(n - 1)}})

\* ---- helpers for the properties ----
Constructed == pc \in {"ready", "observe", "done"}

TotalWip == SumTo(wip, NStations - 1)

NumProcessing == Cardinality({i \in DOMAIN stations : station_status[i].state = "processing"})

MaxDuration == stations[bottleneck_idx]

UpstreamSum == SumTo(stations, bottleneck_idx - 1)

CeilDiv(a, b) == (a + b - 1) \div b

\* C1: WIP conservation: after every step, units_produced + all queued WIP
\* + the number of stations processing equals the units released so far.
WipConservation ==
    Constructed => units_produced + TotalWip + NumProcessing = released

WipConservationWitness ==
    /\ pc = "ready" /\ use_dbr
    /\ units_produced >= 1 /\ TotalWip >= 1 /\ NumProcessing >= 2

\* C2: DBR boundedness as claimed: in dbr mode the queued WIP from the first
\* station through the bottleneck never exceeds buffer_size.
DbrBufferBounded ==
    (Constructed /\ use_dbr) => BufferWip(wip) <= buffer_size

\* C3: construction as claimed: an empty station list, a duration below 1,
\* or dbr with a buffer below 1 is rejected by the constructor, so no
\* steppable simulation exists for such a configuration.
InvalidConfig ==
    \/ stations = <<>>
    \/ \E i \in DOMAIN stations : stations[i] < 1
    \/ use_dbr /\ buffer_size < 1

ConstructorRejectsInvalid == InvalidConfig => pc # "ready"

\* C4: driver equivalence: the loop with periodic observation is, after
\* every completed step and at its end, in the state that the same number
\* of steps without observation produces.
StepsDone == IF pc = "observe" THEN t + 1 ELSE t

DriverEquivalence ==
    Constructed =>
        LET b == BatchRun(StepsDone)
        IN /\ units_produced = b.units_produced
           /\ wip = b.wip
           /\ history = b.history

DriverEquivalenceWitness ==
    /\ pc = "done" /\ t = available_time
    /\ ui.units = units_produced
    /\ Len(history) = available_time
    /\ units_produced >= 1

\* C5: non-negativity: every WIP counter and every time_left is >= 0.
NonNegativity ==
    Constructed => \A i \in DOMAIN stations :
                       wip[i] >= 0 /\ station_status[i].time_left >= 0

NonNegativityWitness ==
    /\ pc = "ready" /\ units_produced >= 1
    /\ \E i \in DOMAIN stations :
           wip[i] = 0 /\ station_status[i].state = "idle"

\* C6: monotonicity: a step never decreases units_produced, and in the
\* history each record's Units Produced is >= the previous record's.
HistoryMonotone ==
    \A k \in 1..(Len(history) - 1) :
        history[k + 1].UnitsProduced >= history[k].UnitsProduced

OutputMonotone ==
    [][(time' = time + 1 => units_produced' >= units_produced) /\ HistoryMonotone']_vars

OutputMonotoneWitness ==
    /\ pc = "ready" /\ Len(history) >= 3
    /\ history[Len(history)].UnitsProduced > history[Len(history) - 1].UnitsProduced
    /\ history[Len(history) - 1].UnitsProduced = history[Len(history) - 2].UnitsProduced

\* C7: station state consistency: time_left > 0 exactly when the station
\* is processing, initially and after every step.
StateConsistency ==
    Constructed => \A i \in DOMAIN stations :
                       (station_status[i].time_left > 0) <=>
                       (station_status[i].state = "processing")

StateConsistencyWitness ==
    /\ pc = "ready" /\ units_produced >= 1
    /\ \E i, j \in DOMAIN stations :
           /\ station_status[i].state = "processing" /\ station_status[i].time_left = 1
           /\ station_status[j].state = "idle" /\ station_status[j].time_left = 0

\* C8: bottleneck selection: bottleneck_idx is the least index whose
\* duration equals the maximal duration.
BottleneckIsFirstMax ==
    Constructed =>
        /\ bottleneck_idx \in DOMAIN stations
        /\ \A j \in DOMAIN stations : stations[j] <= stations[bottleneck_idx]
        /\ \A j \in DOMAIN stations : j < bottleneck_idx => stations[j] < stations[bottleneck_idx]

BottleneckTieWitness ==
    /\ pc = "ready"
    /\ bottleneck_idx >= 1
    /\ \E j \in DOMAIN stations : j > bottleneck_idx /\ stations[j] = stations[bottleneck_idx]

\* C9 (as claimed): durations [5,10,7,6] in push mode: after the first step
\* station 1 is processing with time_left 4, every WIP is 0, output is 0.
FirstTick == Constructed /\ stations = DefaultStations /\ ~use_dbr /\ time = 1

FirstTickAsClaimed ==
    FirstTick => /\ station_status[0] = [state |-> "processing", time_left |-> 4]
                 /\ \A i \in DOMAIN stations : wip[i] = 0
                 /\ units_produced = 0

\* C9 (amended): after the first step the released unit is still queued:
\* station 1 is idle with time_left 0 and WIP 1, every other WIP is 0 and
\* output is 0.
FirstTickQueued ==
    FirstTick => /\ station_status[0] = [state |-> "idle", time_left |-> 0]
                 /\ wip[0] = 1
                 /\ \A i \in DOMAIN stations : i # 0 => wip[i] = 0
                 /\ units_produced = 0

FirstTickWitness == FirstTick /\ pc = "ready" /\ released = 1

\* C10 (as claimed): push mode with upstream durations summing to less than
\* the bottleneck duration: the queued WIP up to the bottleneck exceeds
\* every bound at some tick; here bound 1 within the whole run.
PushGrowthAsClaimed ==
    (Constructed /\ ~use_dbr /\ UpstreamSum < MaxDuration /\ time = MaxTicks)
        => \E k \in 1..Len(history) : BufferWip(history[k].WIP) > 1

\* C10 (amended): if moreover the bottleneck duration is at least 2, the
\* queued WIP up to the bottleneck at tick t is at least
\* t - ceil(t / bottleneck duration) - bottleneck_idx, so it exceeds every bound.
PushGrowth ==
    (Constructed /\ ~use_dbr /\ UpstreamSum < MaxDuration /\ MaxDuration >= 2)
        => BufferWip(wip) >= time - CeilDiv(time, MaxDuration) - bottleneck_idx

PushGrowthWitness ==
    /\ pc = "ready" /\ ~use_dbr
    /\ bottleneck_idx >= 1
    /\ UpstreamSum < MaxDuration /\ MaxDuration >= 2
    /\ BufferWip(wip) >= 5
    /\ units_produced >= 1

\* ---- helpers for the per-tick properties ----
\* the transition is one tick of a constructed simulation
IsTick == Constructed /\ time' = time + 1

\* station i finishes its unit in the tick that starts from the current state
CompletesNow(i) ==
    station_status[i].state = "processing" /\ station_status[i].time_left <= 1

\* station i is idle once the tick's completion phase has run
IdleAfterCompletion(i) ==
    station_status[i].state = "idle" \/ CompletesNow(i)

\* queued units of station i once the tick's completion phase has run
WipAfterCompletion(i) ==
    wip[i] + (IF i > 0 /\ CompletesNow(i - 1) THEN 1 ELSE 0)

StartsNow(i) == IdleAfterCompletion(i) /\ WipAfterCompletion(i) > 0

Injected == released' - released

\* C11: DBR release rule: in dbr mode a tick injects exactly one unit into
\* the first station iff the queued WIP first..bottleneck after completion
\* and dispatch (units in process not counted) is below buffer_size, and
\* injects none otherwise.
DbrReleaseRule ==
    [][(IsTick /\ use_dbr) =>
          /\ Injected \in {0, 1}
          /\ wip'[0] = wip[0] - (IF StartsNow(0) THEN 1 ELSE 0) + Injected
          /\ (Injected = 1) <=> (BufferWip(wip') - Injected < buffer_size)]_vars

DbrReleaseWitness ==
    /\ pc = "ready" /\ use_dbr
    /\ time >= 3 /\ released < time /\ released >= 2
    /\ log[Len(log)] = <<time, "rope", 0>>
    /\ \E i \in 0..bottleneck_idx : station_status[i].state = "processing"
    /\ BufferWip(wip) = buffer_size

LogHas(e) == \E k \in 1..Len(log) : log[k] = e

\* C13: same-tick hand-off: a unit completed at station i in a tick is
\* counted in station i+1's WIP, and station i+1, if idle after the
\* completion phase, starts a unit in that same tick; a station that
\* completes a unit and has queued WIP starts its next unit in the same tick.
SameTickHandOff ==
    [][IsTick =>
          \A i \in DOMAIN stations :
              /\ (CompletesNow(i) /\ i < NStations - 1) =>
                     IF IdleAfterCompletion(i + 1)
                     THEN /\ station_status'[i + 1] =
                                 [state |-> "processing", time_left |-> stations[i + 1]]
                          /\ wip'[i + 1] = wip[i + 1]
                     ELSE /\ station_status'[i + 1].state = "processing"
                          /\ wip'[i + 1] = wip[i + 1] + 1
              /\ (CompletesNow(i) /\ WipAfterCompletion(i) > 0) =>
                     station_status'[i] =
                         [state |-> "processing", time_left |-> stations[i]]]_vars

SameTickHandOffWitness ==
    /\ pc = "ready"
    /\ \E i \in DOMAIN stations :
           /\ i + 1 \in DOMAIN stations
           /\ LogHas(<<time, "moved", i, i + 1>>)
           /\ LogHas(<<time, "started", i + 1>>)
           /\ LogHas(<<time, "started", i>>)
           /\ station_status[i + 1].time_left = stations[i + 1]
           /\ wip[i + 1] = 0

\* log entries of station i that report a completed unit
IsCompletionOf(e, i) == e[2] \in {"moved", "finished"} /\ e[3] = i

\* C14: exact service time without preemption: a station that starts a
\* unit at tick ts with duration d is processing with time_left
\* d - (now - ts) until tick ts + d - 1, starts and completes nothing else
\* in between, and completes that unit at exactly tick ts + d.
ExactServiceTime ==
    Constructed =>
        \A k \in 1..Len(log) :
            log[k][2] = "started" =>
                LET ts == log[k][1]
                    i == log[k][3]
                    d == stations[i]
                IN /\ \A j \in 1..Len(log) :
                          /\ (j # k /\ log[j][2] = "started" /\ log[j][3] = i)
                                 => ~(ts <= log[j][1] /\ log[j][1] < ts + d)
                          /\ IsCompletionOf(log[j], i)
                                 => ~(ts < log[j][1] /\ log[j][1] < ts + d)
                   /\ time >= ts + d =>
                          \E j \in 1..Len(log) :
                              IsCompletionOf(log[j], i) /\ log[j][1] = ts + d
                   /\ time < ts + d =>
                          station_status[i] =
                              [state |-> "processing", time_left |-> d - (time - ts)]

ExactServiceTimeWitness ==
    /\ pc = "ready"
    /\ \E i \in DOMAIN stations :
           /\ stations[i] >= 2
           /\ LogHas(<<time - stations[i], "started", i>>)
           /\ \E j \in 1..Len(log) : IsCompletionOf(log[j], i) /\ log[j][1] = time
           /\ \E n \in 1..MaxTicks : history[time - 1].WIP[i] = n

\* the k-th recorded tick is one at which units_produced increased
OutputAt(k) ==
    history[k].UnitsProduced > (IF k = 1 THEN 0 ELSE history[k - 1].UnitsProduced)

\* C15: the bottleneck paces throughput: in either mode a tick adds at most
\* one finished unit, and two distinct ticks at which units_produced
\* increases are at least the bottleneck duration apart.
BottleneckPacesOutput ==
    Constructed =>
        /\ \A k \in 1..Len(history) :
               history[k].UnitsProduced
                   <= (IF k = 1 THEN 0 ELSE history[k - 1].UnitsProduced) + 1
        /\ \A k1, k2 \in 1..Len(history) :
               (k1 < k2 /\ OutputAt(k1) /\ OutputAt(k2)) => k2 - k1 >= MaxDuration

BottleneckPacesWitness ==
    /\ pc = "ready"
    /\ bottleneck_idx < NStations - 1
    /\ stations[NStations - 1] < MaxDuration
    /\ \E k \in 1..Len(history) :
           /\ k + MaxDuration = Len(history)
           /\ OutputAt(k) /\ OutputAt(k + MaxDuration)
    /\ history[Len(history)].UnitsProduced >= 3

\* the history has one record per elapsed tick, numbered 1, 2, ...
HistoryShape ==
    /\ Len(history) = time
    /\ \A k \in 1..Len(history) : history[k].Time = k

\* C16: history trace: a step increments the clock once and appends one
\* record holding the tick, units_produced and the per-station WIP at the
\* end of that tick, leaving earlier records as they were; so after n steps
\* there are n records and the k-th has Time = k.
HistoryTrace ==
    [][/\ Step => /\ time' = time + 1
                  /\ Len(history') = Len(history) + 1
                  /\ SubSeq(history', 1, Len(history)) = history
                  /\ history'[Len(history')] =
                         [Time |-> time', UnitsProduced |-> units_produced', WIP |-> wip']
       /\ HistoryShape']_vars

HistoryTraceWitness ==
    /\ pc = "ready" /\ time >= 4 /\ Len(history) = time
    /\ history[time].WIP # history[time - 1].WIP
    /\ history[time - 1].WIP # history[time - 2].WIP
    /\ history[time].UnitsProduced > history[time - 1].UnitsProduced

\* the state of a simulation on which no tick has run
Fresh ==
    /\ time = 0 /\ units_produced = 0
    /\ \A i \in DOMAIN stations :
           wip[i] = 0 /\ station_status[i] = [state |-> "idle", time_left |-> 0]
    /\ DOMAIN wip = DOMAIN stations /\ DOMAIN station_status = DOMAIN stations
    /\ history = <<>> /\ log = <<>>

\* the recorded history is that of the same number of steps from the fresh state
RunReproduces == Constructed => history = BatchRun(time).history

\* C17: reset: construction and reset() both leave the simulation in the
\* same fresh state (time 0, no output, no WIP, all stations idle, empty
\* history and log), reset() leaves stations, mode, buffer size and
\* bottleneck unchanged, and the history of any run, first or after a
\* reset, is the history of that many steps from the fresh state.
ResetRestores ==
    /\ [][/\ (Construct /\ pc' = "ready") => Fresh'
          /\ Reset => (Fresh' /\ UNCHANGED <<config, bottleneck_idx>>)]_vars
    /\ []RunReproduces

ResetRestoresWitness ==
    /\ pc = "ready" /\ runs = 2
    /\ time >= 4 /\ units_produced >= 1 /\ TotalWip >= 1

\* C18: implicit DBR bound: in dbr mode the queued WIP first..bottleneck
\* is at most buffer_size + bottleneck_idx at every recorded tick, and the
\* first station's own WIP is at most buffer_size.
DbrImplicitBound ==
    (Constructed /\ use_dbr) =>
        \A k \in 1..Len(history) :
            /\ BufferWip(history[k].WIP) <= buffer_size + bottleneck_idx
            /\ history[k].WIP[0] <= buffer_size

\* a state in which the queued WIP overshoots buffer_size and attains the bound
DbrImplicitBoundWitness ==
    /\ pc = "ready" /\ use_dbr
    /\ bottleneck_idx >= 1
    /\ BufferWip(wip) = buffer_size + bottleneck_idx

\* ticks within which the rope releases again, and within which a unit is finished
ReleaseHorizon == (bottleneck_idx + 1) * MaxDuration

OutputHorizon == SumTo(stations, NStations - 1) + 2

\* C19: implicit DBR liveness: in dbr mode release gating never stalls the
\* line: from every state with enough ticks left in the run, a further unit
\* is eventually released and units_produced eventually increases again.
DbrNeverStalls ==
    \A n \in 0..MaxTicks :
        /\ (pc = "ready" /\ use_dbr /\ released = n /\ time + ReleaseHorizon <= MaxTicks)
               ~> (released > n)
        /\ (pc = "ready" /\ use_dbr /\ units_produced = n /\ time + OutputHorizon <= MaxTicks)
               ~> (units_produced > n)

DbrNeverStallsWitness ==
    /\ pc = "ready" /\ use_dbr
    /\ units_produced >= 2
    /\ released < time - 2
    /\ log[Len(log)] = <<time, "rope", 0>>
    /\ ~LogHas(<<time - 1, "rope", 0>>)
    /\ ~LogHas(<<time - 2, "rope", 0>>)

\* C20: implicit push-dominates-DBR: stepping a push-mode and a dbr-mode
\* simulation of the same station chain side by side, at every tick the
\* push simulation has produced at least as many units and released at
\* least as many units as the dbr simulation.
PushDominatesDbr ==
    (Constructed /\ use_dbr) =>
        LET p == PushRun(time)
        IN /\ p.units_produced >= units_produced
           /\ p.released >= released

PushDominatesWitness ==
    /\ pc = "ready" /\ use_dbr
    /\ units_produced >= 1
    /\ released < time
    /\ PushRun(time).units_produced > units_produced

====
